---- MODULE Spec2Model ----
(***************************************************************************)
(* A model of the handshake packet decoder of minecraft-parser             *)
(* (src/src/lib.rs): parse_varint, parse_ushort, parse_string_n and        *)
(* parse_handshake over one forward-only cursor (bytes::Buf).              *)
(*                                                                         *)
(* The buffer is immutable and is read forward only, so the value of a     *)
(* byte is drawn when the cursor first reaches it: `size` is the length of *)
(* the buffer, fixed when the call starts, and `data` holds the bytes the  *)
(* cursor has passed so far.  A byte the decoder never reads cannot        *)
(* influence it, whatever its value.                                       *)
(***************************************************************************)
EXTENDS Integers, Sequences, FiniteSets, TLC

\* ---------------------------------------------------------------- bounds
\* Longest buffer handed to parse_varint, parse_ushort or parse_string_n.
MaxLen == 6
\* Longest buffer handed to parse_handshake.
MaxPacketLen == 8

\* The byte values a buffer may hold: small lengths and packet ids (0, 1, 2),
\* the outer length of an 8-byte packet (7), a final VarInt byte with all
\* seven data bits set (127: as a fifth byte it sets bit 31 and has bits
\* beyond it), continuation bytes (128, 194, 255), a UTF-8 lead byte (194)
\* with its continuation byte (128), and a byte no UTF-8 text holds (255).
Bytes == {0, 1, 2, 7, 127, 128, 194, 255}

\* --------------------------------------------------------------- program
VARINT_MAX_BYTES == 5

\* The targets the crate builds for, by the width of usize.
UsizeBits == {32, 64}

EntryPoints == {"parse_varint", "parse_ushort", "parse_string_n", "parse_handshake"}

VARIABLES
    usize_bits,  \* the width of usize on the target that runs
    entry,       \* the function the caller invoked
    size,        \* length of the byte sequence under the cursor
    data,        \* the bytes of the buffer the cursor has reached
    pos,         \* the cursor: bytes consumed; remaining() = size - pos
    pc,          \* call stack: the function running first, then the places to return to
    v, bit_place, i, has_more,   \* parse_varint's locals
    ret,         \* the Result the last returning function produced
    len, id, version, address, port, next_state,  \* parse_handshake's locals (<<>>: not bound yet)
    prefix_run   \* TRUE in a second call, made on a strict prefix of an accepted packet

vars == <<usize_bits, entry, size, data, pos, pc, v, bit_place, i, has_more, ret,
          len, id, version, address, port, next_state, prefix_run>>

hs_locals == <<len, id, version, address, port, next_state>>
varint_locals == <<v, bit_place, i, has_more>>
cursor == <<data, pos>>
call == <<usize_bits, entry, size, prefix_run>>

\* ------------------------------------------------------------ Result<T, E>
Ok(x) == [kind |-> "Ok", val |-> x]
Err(e) == [kind |-> "Err", val |-> e]
Panic(why) == [kind |-> "Panic", val |-> why]
NoResult == [kind |-> "None", val |-> "none"]

MinecraftParseError ==
    {"InvalidVarInt", "InvalidUShort", "InvalidStringEncoding",
     "StringTooShort", "LengthNotMatch", "NotHandshake"}

Handshake(ver, addr, prt, nxt) ==
    [protocol_version |-> ver, address |-> addr, port |-> prt, next_state |-> nxt]

\* ------------------------------------------------------------- bytes::Buf
remaining == size - pos

Max(a, b) == IF a >= b THEN a ELSE b

RECURSIVE BytesSeq(_)
BytesSeq(n) == IF n = 0 THEN {<<>>}
               ELSE {Append(s, b) : s \in BytesSeq(n - 1), b \in Bytes}

\* bs are the next Len(bs) bytes under the cursor: those already reached keep
\* their value, the others are the input's.
Reads(bs) == \A j \in 1..Len(bs) : (pos + j <= Len(data)) => bs[j] = data[pos + j]

Revealed(bs) ==
    [k \in 1..Max(Len(data), pos + Len(bs)) |->
        IF k <= Len(data) THEN data[k] ELSE bs[k - pos]]

\* ------------------------------------------------------- 32-bit arithmetic
\* i32 values are kept as integers in -2^31 .. 2^31-1.
Two30 == 2^30

\* x + x, wrapped to 32 bits.
Double32(x) ==
    IF x >= Two30 THEN 2 * ((x - Two30) - Two30)
    ELSE IF x < -Two30 THEN 2 * ((x + Two30) + Two30)
    ELSE 2 * x

\* x << n on an i32, n < 32: the bits shifted past bit 31 are dropped.
RECURSIVE Shl32(_, _)
Shl32(x, n) == IF n = 0 THEN x ELSE Shl32(Double32(x), n - 1)

\* a | b on two's-complement integers.
RECURSIVE BitOr(_, _)
BitOr(a, b) ==
    IF a = 0 THEN b
    ELSE IF b = 0 THEN a
    ELSE IF a = -1 \/ b = -1 THEN -1
    ELSE (IF a % 2 = 1 \/ b % 2 = 1 THEN 1 ELSE 0) + 2 * BitOr(a \div 2, b \div 2)

\* a & b on non-negative integers.
RECURSIVE BitAnd(_, _)
BitAnd(a, b) ==
    IF a = 0 \/ b = 0 THEN 0
    ELSE (IF a % 2 = 1 /\ b % 2 = 1 THEN 1 ELSE 0) + 2 * BitAnd(a \div 2, b \div 2)

\* ------------------------------------------------------------------ usize
\* A usize is kept as its 16-bit limbs, the most significant first.
Limb == 2^16

\* remaining() as a usize.
FromNat(n, bits) ==
    IF bits = 64 THEN <<0, 0, n \div Limb, n % Limb>> ELSE <<n \div Limb, n % Limb>>

\* A cast that takes a negative length for an empty one.
AsUsizeClamped(x, bits) ==
    LET y == IF x < 0 THEN 0 ELSE x
    IN IF bits = 64 THEN <<0, 0, y \div Limb, y % Limb>> ELSE <<y \div Limb, y % Limb>>

\* `x as usize` for an i32 x: sign extension to the width of usize.
AsUsize(x, bits) ==
    LET ext == IF x < 0 THEN Limb - 1 ELSE 0
        high == (x \div Limb) % Limb
        low == x % Limb
    IN IF bits = 64 THEN <<ext, ext, high, low>> ELSE <<high, low>>

RECURSIVE USizeLtFrom(_, _, _)
USizeLtFrom(a, b, k) ==
    IF k > Len(a) THEN FALSE
    ELSE IF a[k] # b[k] THEN a[k] < b[k]
    ELSE USizeLtFrom(a, b, k + 1)

USizeLt(a, b) == USizeLtFrom(a, b, 1)

\* The number a usize no larger than a buffer's length stands for.
USizeToNat(u) == u[Len(u) - 1] * Limb + u[Len(u)]

\* ------------------------------------------------------- str::from_utf8
\* The validation std::str::from_utf8 runs: the first byte of a character
\* gives its width, a second byte's range depends on the first, the others
\* are continuation bytes (0x80..0xBF).
Utf8CharWidth(first) ==
    IF first < 128 THEN 1
    ELSE IF first >= 194 /\ first <= 223 THEN 2
    ELSE IF first >= 224 /\ first <= 239 THEN 3
    ELSE IF first >= 240 /\ first <= 244 THEN 4
    ELSE 0

IsContinuation(b) == b >= 128 /\ b <= 191

Utf8SecondOk(first, second) ==
    CASE first = 224 -> second >= 160 /\ second <= 191
      [] first = 237 -> second >= 128 /\ second <= 159
      [] first = 240 -> second >= 144 /\ second <= 191
      [] first = 244 -> second >= 128 /\ second <= 143
      [] OTHER -> IsContinuation(second)

RECURSIVE Utf8ValidFrom(_, _)
Utf8ValidFrom(s, k) ==
    IF k > Len(s) THEN TRUE
    ELSE LET w == Utf8CharWidth(s[k])
         IN /\ w # 0
            /\ k + w - 1 <= Len(s)
            /\ w >= 2 => Utf8SecondOk(s[k], s[k + 1])
            /\ \A j \in 2..(w - 1) : IsContinuation(s[k + j])
            /\ Utf8ValidFrom(s, k + w)

\* str::from_utf8(&bytes)?.to_string(): a String is its UTF-8 bytes.
FromUtf8(bytes) ==
    IF Utf8ValidFrom(bytes, 1) THEN Ok(bytes) ELSE Err("InvalidStringEncoding")

\* ------------------------------------------------------------ the guards
\* A loop that does not ask whether a byte is left.
VarIntBailNoRemaining(n, rem) == n = VARINT_MAX_BYTES

\* A loop that stops one byte late.
VarIntBailOffByOne(n, rem) == n > VARINT_MAX_BYTES \/ rem < 1

\* parse_varint, line 47.
VarIntBail(n, rem) == n = VARINT_MAX_BYTES \/ rem < 1

\* parse_varint, lines 52 and 53.
HasMore(byte) == BitAnd(byte, 128) # 0

\* An accumulation that keeps the continuation bit in the value.
AccumulateNoMask(acc, byte, place) == BitOr(acc, Shl32(byte, place))

Accumulate(acc, byte, place) == BitOr(acc, Shl32(BitAnd(byte, 127), place))

\* `<< bit_place` on an i32, line 53: a shift by 32 or more panics in a build
\* with overflow checks and uses the amount modulo 32 in one without; a
\* smaller shift is the same in both.
ShiftChecks(place) == IF place >= 32 THEN BOOLEAN ELSE {FALSE}

\* A check that lets a single byte through.
UShortBailOne(rem) == rem < 1

\* parse_ushort, line 33.
UShortBail(rem) == rem < 2

\* get_u16: big-endian.
U16(b0, b1) == b0 * 256 + b1

\* A check that also refuses a string that ends on the buffer's last byte.
StringBailOffByOne(rem, length, bits) ==
    ~USizeLt(AsUsize(length, bits), FromNat(rem, bits))

\* parse_string_n, line 64.
StringBail(rem, length, bits) == USizeLt(FromNat(rem, bits), AsUsize(length, bits))

\* A check of a minimum: bytes after the declared length are let through.
LengthBailShortOnly(rem, length, bits) ==
    USizeLt(FromNat(rem, bits), AsUsize(length, bits))

\* A check of a maximum: a packet cut short is let through.
LengthBailExtraOnly(rem, length, bits) ==
    USizeLt(AsUsize(length, bits), FromNat(rem, bits))

\* parse_handshake, line 75.
LengthBail(rem, length, bits) == FromNat(rem, bits) # AsUsize(length, bits)

\* No check of the packet ID.
IdBailNever(packet_id) == FALSE

\* parse_handshake, line 80.
IdBail(packet_id) == packet_id # 0

\* ------------------------------------------------------------------ calls
\* Entering parse_varint: lines 41 to 44.
EnterVarint ==
    /\ v' = 0
    /\ bit_place' = 0
    /\ i' = 0
    /\ has_more' = TRUE

StackOf(fn) ==
    CASE fn = "parse_varint" -> <<"parse_varint">>
      [] fn = "parse_ushort" -> <<"parse_ushort">>
      [] fn = "parse_string_n" -> <<"parse_varint", "parse_string_n">>
      [] fn = "parse_handshake" -> <<"parse_varint", "hs_len">>

Running(fn) == pc # <<>> /\ Head(pc) = fn

Returned == pc = <<>>

\* A panic unwinds the whole call.
Abort(why) ==
    /\ ret' = Panic(why)
    /\ pc' = <<>>

Init ==
    /\ usize_bits \in UsizeBits
    /\ entry \in EntryPoints
    /\ size \in 0..(IF entry = "parse_handshake" THEN MaxPacketLen ELSE MaxLen)
    /\ data = <<>>
    /\ pos = 0
    /\ pc = StackOf(entry)
    /\ v = 0 /\ bit_place = 0 /\ i = 0 /\ has_more = TRUE
    /\ ret = NoResult
    /\ len = <<>> /\ id = <<>> /\ version = <<>>
    /\ address = <<>> /\ port = <<>> /\ next_state = <<>>
    /\ prefix_run = FALSE

\* ----------------------------------------------------------- parse_varint
\* One turn of the loop of lines 46 to 56, and line 58 when the loop ends.
parse_varint ==
    /\ Running("parse_varint")
    /\ UNCHANGED <<call, hs_locals>>
    /\ IF VarIntBail(i, remaining)
       THEN /\ ret' = Err("InvalidVarInt")
            /\ pc' = Tail(pc)
            /\ UNCHANGED <<cursor, varint_locals>>
       ELSE IF remaining < 1
       THEN /\ Abort("get_u8")
            /\ UNCHANGED <<cursor, varint_locals>>
       ELSE \E byte \in Bytes, overflow_checks \in ShiftChecks(bit_place) :
            /\ Reads(<<byte>>)
            /\ data' = Revealed(<<byte>>)
            /\ pos' = pos + 1
            /\ IF overflow_checks
               THEN /\ Abort("shift left with overflow")
                    /\ UNCHANGED varint_locals
               ELSE /\ has_more' = HasMore(byte)
                    /\ v' = Accumulate(v, byte, bit_place % 32)
                    /\ bit_place' = bit_place + 7
                    /\ i' = i + 1
                    /\ IF has_more'
                       THEN UNCHANGED <<pc, ret>>
                       ELSE /\ ret' = Ok(v')
                            /\ pc' = Tail(pc)

\* ----------------------------------------------------------- parse_ushort
parse_ushort ==
    /\ Running("parse_ushort")
    /\ UNCHANGED <<call, hs_locals, varint_locals>>
    /\ IF UShortBail(remaining)
       THEN /\ ret' = Err("InvalidUShort")
            /\ pc' = Tail(pc)
            /\ UNCHANGED cursor
       ELSE IF remaining < 2
       THEN /\ Abort("get_u16")
            /\ UNCHANGED cursor
       ELSE \E bs \in BytesSeq(2) :
            /\ Reads(bs)
            /\ data' = Revealed(bs)
            /\ pos' = pos + 2
            /\ ret' = Ok(U16(bs[1], bs[2]))
            /\ pc' = Tail(pc)

\* --------------------------------------------------------- parse_string_n
\* Lines 62 to 70, from the return of the parse_varint call of line 62.
parse_string_n ==
    /\ Running("parse_string_n")
    /\ UNCHANGED <<call, hs_locals, varint_locals>>
    /\ pc' = Tail(pc)
    /\ IF ret.kind # "Ok"
       THEN UNCHANGED <<ret, cursor>>
       ELSE IF StringBail(remaining, ret.val, usize_bits)
       THEN /\ ret' = Err("StringTooShort")
            /\ UNCHANGED cursor
       ELSE IF USizeLt(FromNat(remaining, usize_bits), AsUsize(ret.val, usize_bits))
       THEN /\ ret' = Panic("copy_to_bytes")
            /\ UNCHANGED cursor
       ELSE \E bytes \in BytesSeq(USizeToNat(AsUsize(ret.val, usize_bits))) :
            /\ Reads(bytes)
            /\ data' = Revealed(bytes)
            /\ pos' = pos + Len(bytes)
            /\ ret' = FromUtf8(bytes)

\* -------------------------------------------------------- parse_handshake
\* The `?` of lines 74, 79, 84 to 87: an error is returned as it came.
Propagate ==
    /\ pc' = <<>>
    /\ UNCHANGED <<ret, cursor, varint_locals, hs_locals>>

\* Lines 74 to 79: the outer length is bound and checked, then the packet
\* ID's parse_varint is entered.
HsOuterLength ==
    /\ Running("hs_len")
    /\ UNCHANGED call
    /\ IF ret.kind # "Ok" THEN Propagate
       ELSE /\ len' = <<ret.val>>
            /\ UNCHANGED <<cursor, id, version, address, port, next_state>>
            /\ IF LengthBail(remaining, ret.val, usize_bits)
               THEN /\ ret' = Err("LengthNotMatch")
                    /\ pc' = <<>>
                    /\ UNCHANGED varint_locals
               ELSE /\ pc' = <<"parse_varint", "hs_id">>
                    /\ EnterVarint
                    /\ UNCHANGED ret

\* Lines 79 to 84.
HsPacketId ==
    /\ Running("hs_id")
    /\ UNCHANGED call
    /\ IF ret.kind # "Ok" THEN Propagate
       ELSE /\ id' = <<ret.val>>
            /\ UNCHANGED <<cursor, len, version, address, port, next_state>>
            /\ IF IdBail(ret.val)
               THEN /\ ret' = Err("NotHandshake")
                    /\ pc' = <<>>
                    /\ UNCHANGED varint_locals
               ELSE /\ pc' = <<"parse_varint", "hs_version">>
                    /\ EnterVarint
                    /\ UNCHANGED ret

\* Lines 84 and 85: the version is bound and parse_string_n is entered (its
\* first statement calls parse_varint).
HsProtocolVersion ==
    /\ Running("hs_version")
    /\ UNCHANGED call
    /\ IF ret.kind # "Ok" THEN Propagate
       ELSE /\ version' = <<ret.val>>
            /\ UNCHANGED <<cursor, len, id, address, port, next_state>>
            /\ pc' = <<"parse_varint", "parse_string_n", "hs_address">>
            /\ EnterVarint
            /\ UNCHANGED ret

\* Lines 85 and 86.
HsAddress ==
    /\ Running("hs_address")
    /\ UNCHANGED call
    /\ IF ret.kind # "Ok" THEN Propagate
       ELSE /\ address' = <<ret.val>>
            /\ UNCHANGED <<cursor, len, id, version, port, next_state>>
            /\ pc' = <<"parse_ushort", "hs_port">>
            /\ UNCHANGED <<ret, varint_locals>>

\* Lines 86 and 87.
HsPort ==
    /\ Running("hs_port")
    /\ UNCHANGED call
    /\ IF ret.kind # "Ok" THEN Propagate
       ELSE /\ port' = <<ret.val>>
            /\ UNCHANGED <<cursor, len, id, version, address, next_state>>
            /\ pc' = <<"parse_varint", "hs_next_state">>
            /\ EnterVarint
            /\ UNCHANGED ret

\* Lines 87 to 96.
HsNextState ==
    /\ Running("hs_next_state")
    /\ UNCHANGED call
    /\ IF ret.kind # "Ok" THEN Propagate
       ELSE /\ next_state' = <<ret.val>>
            /\ UNCHANGED <<cursor, len, id, version, address, port, varint_locals>>
            /\ ret' = Ok(Handshake(version[1], address[1], port[1], ret.val))
            /\ pc' = <<>>

parse_handshake ==
    \/ HsOuterLength
    \/ HsPacketId
    \/ HsProtocolVersion
    \/ HsAddress
    \/ HsPort
    \/ HsNextState

\* ---------------------------------------------------------------- caller
\* The caller hands parse_handshake a strict prefix of a packet it accepted
\* (a packet of which only the first m bytes have arrived).
Truncate ==
    /\ entry = "parse_handshake"
    /\ Returned
    /\ ret.kind = "Ok"
    /\ ~prefix_run
    /\ \E m \in 0..(size - 1) :
        /\ size' = m
        /\ data' = SubSeq(data, 1, IF m < Len(data) THEN m ELSE Len(data))
    /\ pos' = 0
    /\ pc' = StackOf("parse_handshake")
    /\ EnterVarint
    /\ ret' = NoResult
    /\ len' = <<>> /\ id' = <<>> /\ version' = <<>>
    /\ address' = <<>> /\ port' = <<>> /\ next_state' = <<>>
    /\ prefix_run' = TRUE
    /\ UNCHANGED <<usize_bits, entry>>

Next ==
    \/ parse_varint
    \/ parse_ushort
    \/ parse_string_n
    \/ parse_handshake
    \/ Truncate

Spec == Init /\ [][Next]_vars

(***************************************************************************)
(* Properties.  They are stated against the wire format, read off `data`   *)
(* independently of the decoder's own arithmetic.                          *)
(***************************************************************************)

\* The index of the first byte at or after `from` whose high bit is clear:
\* the last byte of the VarInt that starts at `from`.  0 when there is none.
FieldEnd(s, from) ==
    LET finals == {k \in from..Len(s) : s[k] < 128}
    IN IF finals = {} THEN 0
       ELSE CHOOSE k \in finals : \A other \in finals : k <= other

\* The seven data bits of byte number k (from 0) of the VarInt s[from..to],
\* as a number; 0 for a byte the VarInt does not have.
WireGroup(s, from, to, k) == IF from + k <= to THEN s[from + k] % 128 ELSE 0

\* The 32-bit two's-complement integer of the VarInt s[from..to]: group k
\* weighs 128^k; of the fifth group only the low three bits weigh positively
\* (bits 28 to 30), its fourth bit is bit 31 and weighs -2^31, and its bits
\* past bit 31 are dropped.
VarIntValue(s, from, to) ==
    LET g(k) == WireGroup(s, from, to, k)
        low == g(0) + g(1) * 128 + g(2) * 128^2 + g(3) * 128^3
                 + (g(4) % 8) * 128^4
    IN IF (g(4) \div 8) % 2 = 1 THEN (low - 2^30) - 2^30 ELSE low

\* c is the UTF-8 encoding of one Unicode scalar value: the shortest form of
\* a code point up to 0x10FFFF that is no surrogate.
EncodesScalar(c) ==
    LET cont(k) == c[k] >= 128 /\ c[k] <= 191
        low(k) == c[k] - 128
    IN CASE Len(c) = 1 -> c[1] < 128
         [] Len(c) = 2 ->
              /\ c[1] >= 192 /\ c[1] <= 223 /\ cont(2)
              /\ (c[1] - 192) * 64 + low(2) >= 128
         [] Len(c) = 3 ->
              /\ c[1] >= 224 /\ c[1] <= 239 /\ cont(2) /\ cont(3)
              /\ LET cp == (c[1] - 224) * 4096 + low(2) * 64 + low(3)
                 IN cp >= 2048 /\ ~(cp >= 55296 /\ cp <= 57343)
         [] Len(c) = 4 ->
              /\ c[1] >= 240 /\ c[1] <= 247 /\ cont(2) /\ cont(3) /\ cont(4)
              /\ LET cp == (c[1] - 240) * 262144 + low(2) * 4096 + low(3) * 64 + low(4)
                 IN cp >= 65536 /\ cp <= 1114111
         [] OTHER -> FALSE

RECURSIVE WellFormedUtf8(_)
WellFormedUtf8(s) ==
    \/ s = <<>>
    \/ \E n \in 1..(IF Len(s) < 4 THEN Len(s) ELSE 4) :
          /\ EncodesScalar(SubSeq(s, 1, n))
          /\ WellFormedUtf8(SubSeq(s, n + 1, Len(s)))

Failed(e) == ret.kind = "Err" /\ ret.val = e

\* The end of the VarInt that follows a field ending at `prev` (0 when that
\* field is not there).
NextEnd(prev) == IF prev = 0 THEN 0 ELSE FieldEnd(data, prev + 1)

\* The fields of a handshake packet as they lie in `data`: the last byte of
\* the outer length (e1), of the packet ID (e2), of the protocol version
\* (e3) and of the address length (e4), that length (alen), the first byte of
\* the port (port_at, 0 when the address is not all there) and the last byte
\* of next_state (e5).
WireFields ==
    LET e1 == FieldEnd(data, 1)
        e2 == NextEnd(e1)
        e3 == NextEnd(e2)
        e4 == NextEnd(e3)
        alen == VarIntValue(data, e3 + 1, e4)
        port_at == IF e4 = 0 \/ alen < 0 \/ alen > Len(data) THEN 0
                   ELSE e4 + alen + 1
        e5 == IF port_at = 0 \/ port_at + 1 > Len(data) THEN 0
              ELSE NextEnd(port_at + 1)
    IN [e1 |-> e1, e2 |-> e2, e3 |-> e3, e4 |-> e4,
        alen |-> alen, port_at |-> port_at, e5 |-> e5]

E1 == FieldEnd(data, 1)

\* C1: on every input no decoding step reads past the end of the buffer
\* (get_u8, get_u16 and copy_to_bytes, which panic when the cursor holds too
\* few bytes, never do), and a call that has returned has returned Ok or one
\* of the six error kinds; parse_handshake's Ok carries a Handshake.
C1_NeverOverReadsNorPanics ==
    /\ pos <= size
    /\ Len(data) <= size
    /\ ret.kind # "Panic"
    /\ Returned =>
         \/ ret.kind = "Err" /\ ret.val \in MinecraftParseError
         \/ /\ ret.kind = "Ok"
            /\ entry = "parse_handshake" =>
                  DOMAIN ret.val = {"protocol_version", "address", "port", "next_state"}

\* parse_handshake accepted a packet whose last field ends on the buffer's
\* last byte: every read up to the end of the buffer took place.
C1_Witness ==
    /\ entry = "parse_handshake" /\ Returned /\ ret.kind = "Ok"
    /\ pos = size /\ ~prefix_run

\* C2: once the outer length has decoded, a declared length that is negative
\* or differs from the number of bytes after the field gives LengthNotMatch,
\* with the cursor still right after the outer-length field and no later
\* step run.
C2_LengthNotMatch ==
    (/\ entry = "parse_handshake"
     /\ len # <<>>
     /\ (len[1] < 0 \/ len[1] # size - E1))
    => /\ Returned
       /\ Failed("LengthNotMatch")
       /\ pos = E1
       /\ id = <<>> /\ version = <<>> /\ address = <<>>
       /\ port = <<>> /\ next_state = <<>>

\* More bytes follow the outer-length field than it declares.
C2_Witness ==
    /\ entry = "parse_handshake" /\ Returned /\ Failed("LengthNotMatch")
    /\ len[1] >= 0 /\ len[1] < size - pos

\* C3: parse_handshake runs its six steps in order and stops at the first one
\* that fails: the locals are bound in the order len, id, version, address,
\* port, next_state, each to the value its field encodes; an error is the one
\* of the step after the last bound local, with nothing consumed past it; Ok
\* is returned only with all six bound, id = 0, and carries exactly the
\* decoded version, address, port and next_state.
C3_LinearPipeline ==
    entry = "parse_handshake" =>
    LET f == WireFields IN
    /\ next_state # <<>> => port # <<>>
    /\ port # <<>> => address # <<>>
    /\ address # <<>> => version # <<>>
    /\ version # <<>> => id # <<>>
    /\ id # <<>> => len # <<>>
    /\ len # <<>> => f.e1 # 0 /\ len[1] = VarIntValue(data, 1, f.e1)
    /\ id # <<>> =>
          /\ f.e2 # 0 /\ id[1] = VarIntValue(data, f.e1 + 1, f.e2)
          /\ len[1] = size - f.e1
    /\ version # <<>> =>
          /\ f.e3 # 0 /\ version[1] = VarIntValue(data, f.e2 + 1, f.e3)
          /\ id[1] = 0
    /\ address # <<>> =>
          /\ f.e4 # 0 /\ f.alen >= 0
          /\ address[1] = SubSeq(data, f.e4 + 1, f.e4 + f.alen)
    /\ port # <<>> => port[1] = 256 * data[f.port_at] + data[f.port_at + 1]
    /\ next_state # <<>> =>
          f.e5 # 0 /\ next_state[1] = VarIntValue(data, f.port_at + 2, f.e5)
    /\ (Returned /\ ret.kind = "Err") =>
          /\ next_state = <<>>
          /\ len = <<>> => Failed("InvalidVarInt")
          /\ (len # <<>> /\ id = <<>>) =>
                \/ Failed("LengthNotMatch") /\ pos = f.e1
                \/ Failed("InvalidVarInt") /\ len[1] = size - f.e1
          /\ (id # <<>> /\ version = <<>>) =>
                IF id[1] # 0 THEN Failed("NotHandshake") /\ pos = f.e2
                ELSE Failed("InvalidVarInt")
          /\ (version # <<>> /\ address = <<>>) =>
                ret.val \in {"InvalidVarInt", "StringTooShort", "InvalidStringEncoding"}
          /\ (address # <<>> /\ port = <<>>) =>
                Failed("InvalidUShort") /\ pos = f.e4 + f.alen
          /\ port # <<>> => Failed("InvalidVarInt")
    /\ (Returned /\ ret.kind = "Ok") =>
          /\ next_state # <<>>
          /\ pos = f.e5
          /\ ret.val = Handshake(version[1], address[1], port[1], next_state[1])

\* A packet is accepted whose next_state is neither 1 (status) nor 2 (login)
\* and whose address is not empty.
C3_Witness ==
    /\ entry = "parse_handshake" /\ Returned /\ ret.kind = "Ok"
    /\ ret.val.next_state \notin {1, 2}
    /\ ret.val.address # <<>>

\* C4: parse_varint succeeds whenever a byte with a clear high bit lies among
\* the first five bytes (it fails only with none read and either the buffer
\* used up or five bytes read); it then has consumed the bytes up to that
\* byte and returns the 32-bit integer they encode.
C4_VarIntValue ==
    (entry = "parse_varint" /\ Returned) =>
    /\ ret.kind = "Ok" =>
          /\ E1 \in 1..5
          /\ pos = E1 /\ Len(data) = E1
          /\ ret.val = VarIntValue(data, 1, E1)
    /\ ret.kind # "Ok" =>
          /\ E1 = 0
          /\ Len(data) = size \/ Len(data) >= 5

\* Five bytes decode to a negative value, the fifth with bits beyond bit 31.
C4_Witness ==
    /\ entry = "parse_varint" /\ Returned /\ ret.kind = "Ok"
    /\ pos = 5 /\ data[5] = 127 /\ data[1] = 128 /\ ret.val < 0

\* C5: parse_varint fails, with InvalidVarInt, exactly when no byte with a
\* clear high bit was found before the buffer ran out or among the first five
\* bytes; it never reads a sixth byte; parse_handshake and parse_string_n on
\* an empty buffer fail with InvalidVarInt.
C5_InvalidVarInt ==
    /\ i <= 5
    /\ entry = "parse_varint" => pos <= 5 /\ Len(data) <= 5
    /\ (entry = "parse_varint" /\ Returned) =>
          /\ ret.kind = "Err" <=> E1 = 0
          /\ ret.kind = "Err" =>
                /\ ret.val = "InvalidVarInt"
                /\ (pos = size /\ size < 5) \/ pos = 5
          /\ ret.kind \in {"Ok", "Err"}
    /\ (entry \in {"parse_handshake", "parse_string_n"} /\ size = 0 /\ Returned) =>
          Failed("InvalidVarInt") /\ pos = 0

\* Five continuation bytes are rejected although a sixth byte is there.
C5_Witness ==
    /\ entry = "parse_varint" /\ Returned /\ Failed("InvalidVarInt")
    /\ pos = 5 /\ size > 5

\* C6: parse_ushort with fewer than two bytes fails with InvalidUShort and
\* leaves the cursor where it was; otherwise it returns 256*b0 + b1 for the
\* next two bytes and advances by exactly two.
C6_UShortAllOrNothing ==
    entry = "parse_ushort" =>
    /\ ~Returned => pos = 0 /\ data = <<>>
    /\ Returned =>
          IF size < 2
          THEN Failed("InvalidUShort") /\ pos = 0 /\ data = <<>>
          ELSE /\ ret.kind = "Ok"
               /\ pos = 2 /\ Len(data) = 2
               /\ ret.val = 256 * data[1] + data[2]

\* Two different bytes are read from a longer buffer.
C6_Witness ==
    /\ entry = "parse_ushort" /\ Returned /\ ret.kind = "Ok"
    /\ size > 2 /\ data[1] > data[2] /\ data[2] > 0

\* C7: in parse_string_n, with a length prefix that decoded to L >= 0: fewer
\* than L bytes left gives StringTooShort with the cursor right after the
\* prefix; otherwise exactly L bytes are consumed and the result is their text
\* when they are well-formed UTF-8 and InvalidStringEncoding when not.
C7_StringBody ==
    (/\ entry = "parse_string_n" /\ Returned
     /\ E1 # 0 /\ VarIntValue(data, 1, E1) >= 0)
    => LET L == VarIntValue(data, 1, E1)
           body == SubSeq(data, E1 + 1, E1 + L)
       IN IF size - E1 < L
          THEN Failed("StringTooShort") /\ pos = E1 /\ Len(data) = E1
          ELSE /\ pos = E1 + L /\ Len(data) = E1 + L
               /\ IF WellFormedUtf8(body)
                  THEN ret.kind = "Ok" /\ ret.val = body
                  ELSE Failed("InvalidStringEncoding")

\* A two-byte character is decoded and bytes are left after the string.
C7_Witness ==
    /\ entry = "parse_string_n" /\ Returned /\ ret.kind = "Ok"
    /\ ret.val = <<194, 128>> /\ pos < size

\* C8: a string length prefix that decodes to a negative value makes
\* parse_string_n, and the address step of parse_handshake, return an error
\* with the cursor right after the prefix, whatever is left in the buffer.
C8_NegativeStringLength ==
    /\ (/\ entry = "parse_string_n" /\ Running("parse_string_n")
        /\ ret.kind = "Ok") => ret.val = VarIntValue(data, 1, E1)
    /\ (/\ entry = "parse_string_n" /\ Returned
        /\ E1 # 0 /\ VarIntValue(data, 1, E1) < 0)
       => ret.kind = "Err" /\ pos = E1 /\ Len(data) = E1
    /\ (/\ entry = "parse_handshake" /\ Returned /\ version # <<>>
        /\ WireFields.e4 # 0 /\ WireFields.alen < 0)
       => ret.kind = "Err" /\ pos = WireFields.e4 /\ address = <<>>

\* The prefix decodes to a negative length and bytes are left after it.
C8_Witness ==
    /\ entry = "parse_string_n" /\ Returned
    /\ E1 = 5 /\ VarIntValue(data, 1, E1) < 0
    /\ size > pos

\* The same in the address step of parse_handshake.
C8_HandshakeCase ==
    /\ entry = "parse_handshake" /\ Returned /\ version # <<>>
    /\ WireFields.e4 # 0 /\ WireFields.alen < 0

\* C9 as stated: on every strict prefix of an accepted packet parse_handshake
\* fails with StringTooShort, InvalidUShort or InvalidVarInt.
C9_AsStated ==
    (prefix_run /\ Returned) =>
        /\ ret.kind = "Err"
        /\ ret.val \in {"StringTooShort", "InvalidUShort", "InvalidVarInt"}

\* C9 (amended): on every strict prefix of an accepted packet parse_handshake
\* fails: with InvalidVarInt when the prefix ends before the last byte of the
\* outer-length VarInt, with LengthNotMatch otherwise, and with no other
\* error kind.
C9_PrefixFails ==
    (prefix_run /\ Returned) =>
        /\ ret.kind = "Err"
        /\ ret.val \in {"InvalidVarInt", "LengthNotMatch"}
        /\ ret.val = "LengthNotMatch" <=> E1 # 0
        /\ ret.val = "InvalidVarInt" <=> size < 1 \/ E1 = 0

\* A prefix that holds the outer-length field and more.
C9_Witness ==
    /\ prefix_run /\ Returned /\ Failed("LengthNotMatch")
    /\ size > E1 + 1

\* C10: when parse_handshake returns Ok the cursor has no byte left.
C10_OkConsumesWholePacket ==
    (entry = "parse_handshake" /\ Returned /\ ret.kind = "Ok") => pos = size

====
